---- MODULE Spec2Model ----
(***************************************************************************)
(* A model of src/phi2/app.py: the Flask server that wraps a text          *)
(* generation model with a "progressive" mode.  /generate returns a short  *)
(* first chunk and starts a background thread that produces the full       *)
(* answer; /continue_generation/<id> polls the session registry            *)
(* active_generations; a cleanup thread evicts sessions older than 30      *)
(* minutes every 10 minutes.                                               *)
(*                                                                         *)
(* The model (transformers) is a black box: a call to model.generate       *)
(* followed by tokenizer.batch_decode returns some decoded text or raises. *)
(* Threads interleave between the registry accesses of the handlers, as    *)
(* they do under the interpreter lock; every label "Lnnn" is the line of   *)
(* app.py the thread executes next.                                        *)
(***************************************************************************)
EXTENDS Integers, Sequences, FiniteSets, TLC

VARIABLES
    now,                 \* time.time(), in seconds
    active_generations,  \* the keys of the dict active_generations (line 41)
    generations,         \* the dict objects built at lines 96-103, by key
    bg_thread,           \* the background thread of each session (lines 108-113, 174-213)
    cleanup_thread,      \* the cleanup thread (lines 216-241)
    poll,                \* the /continue_generation request in flight or just answered (lines 123-142)
    served,              \* the last /generate request answered: its engine call and its response
    decoded,             \* response cleaning on its own: a decoded engine output
    cleaned              \* response cleaning on its own: the result of cleaning it

vars == <<now, active_generations, generations, bg_thread, cleanup_thread, poll,
          served, decoded, cleaned>>

-----------------------------------------------------------------------------
(* Bounds of the model *)

\* the number of uuid4 values the process draws
MaxIds == 2
\* the clock advances in steps of TickStep seconds up to MaxTime
TickStep == 300
MaxTime == 2400
\* decoded engine outputs are built from at most MaxPieces pieces
MaxPieces == 4

(* Program constants *)

\* line 222: the retention window in seconds
Retention == 1800
\* line 235: the sleep between two cleanups in seconds
Interval == 600
\* line 58: max_length when the request gives none
DefaultMaxLength == 150
\* lines 102, 110, 155: the ceiling of max_length
MaxLength == 150
\* line 84: the extra tokens of the first chunk
FirstChunk == 10

\* a key a dict does not hold, a key no request names
NoValue == "<none>"
NoId == 0

\* Ids[k] is the k-th value uuid.uuid4() returns in this process (line 73).
Ids == 1..MaxIds

-----------------------------------------------------------------------------
(* Text.  A text is a sequence of characters. *)

Chars(str) ==
    CASE str = "Response:" -> <<"R", "e", "s", "p", "o", "n", "s", "e", ":">>
      [] str = "Resp"      -> <<"R", "e", "s", "p">>
      [] str = " "         -> <<" ">>
      [] str = "\n"        -> <<"\n">>
      [] str = "a"         -> <<"a">>
      [] str = "b"         -> <<"b">>
      [] str = ""          -> <<>>

\* lines 167, 198: the separator handed to split
Marker == Chars("Response:")

\* the characters str.strip() removes
Whitespace == {" ", "\n", "\t", "\r", "\f"}

\* s has sep at position i
MatchAt(s, sep, i) ==
    /\ i >= 1
    /\ i + Len(sep) - 1 <= Len(s)
    /\ SubSeq(s, i, i + Len(sep) - 1) = sep

\* str.find: the first position >= 1 where sep occurs in s, 0 when it does not
find(s, sep) ==
    LET hits == {i \in 1..Len(s) : MatchAt(s, sep, i)}
    IN  IF hits = {} THEN 0 ELSE CHOOSE i \in hits : \A j \in hits : i <= j

\* str.split(sep): the pieces of s between the occurrences of sep, left to right
RECURSIVE split(_, _)
split(s, sep) ==
    LET i == find(s, sep)
    IN  IF i = 0
        THEN <<s>>
        ELSE <<SubSeq(s, 1, i - 1)>> \o split(SubSeq(s, i + Len(sep), Len(s)), sep)

\* str.strip(): s without its leading and trailing whitespace
strip(s) ==
    LET keep == {i \in 1..Len(s) : s[i] \notin Whitespace}
    IN  IF keep = {} THEN <<>>
        ELSE LET lo == CHOOSE i \in keep : \A j \in keep : i <= j
                 hi == CHOOSE i \in keep : \A j \in keep : i >= j
             IN  SubSeq(s, lo, hi)

\* lines 197-200: try: full_result.split("Response:")[1].strip(); except: full_result
clean_result(full_result) ==
    LET parts == split(full_result, Marker)
    IN  IF Len(parts) >= 2 THEN strip(parts[2]) ELSE full_result

\* lines 166-169: try: result.split("Response:")[1].strip(); except: pass
result_cleaned(result) ==
    LET parts == split(result, Marker)
    IN  IF Len(parts) >= 2 THEN strip(parts[2]) ELSE result

\* the concatenation of a sequence of texts
RECURSIVE Cat(_)
Cat(texts) == IF texts = <<>> THEN <<>> ELSE Head(texts) \o Cat(Tail(texts))

\* the pieces decoded engine outputs are built from
Pieces == {Marker, Chars("Resp"), Chars(" "), Chars("\n"), Chars("a")}

\* every text of at most n pieces
RECURSIVE TextsOf(_)
TextsOf(n) ==
    IF n = 0 THEN {<<>>}
    ELSE LET shorter == TextsOf(n - 1)
         IN  shorter \cup {t \o p : t \in shorter, p \in Pieces}

\* what tokenizer.batch_decode(...)[0] may return (lines 163, 194), response cleaning on its own
DecodedTexts == TextsOf(MaxPieces)

\* what the first, short call may decode to (line 92): the prompt and a few tokens
FirstResults ==
    { Cat(<<Marker, Chars(" "), Chars("a")>>) }

\* what a full call may decode to (lines 163, 194): the prompt and the answer
FullResults ==
    { Cat(<<Chars("a"), Marker, Chars(" "), Chars("a"), Chars("b"), Chars("\n")>>) }

\* what str(e) may be when model.generate raises (lines 209-213)
EngineErrors == {"CUDA out of memory"}

-----------------------------------------------------------------------------
(* The /generate request (lines 54-120) *)

\* lines 44-48
SYSTEM_PROMPTS ==
    [ default |-> "You are a helpful and concise assistant. Keep your answers brief and to the point.",
      poem    |-> "You are a creative poet. Write short, meaningful poems that are no more than 8 lines. Be expressive yet concise. Sign your poems as 'Phi-1.5'.",
      brief   |-> "You are a concise assistant. Provide only the essential information in your responses. Limit your answers to 3 sentences maximum." ]

\* dict.get(key, default)
Get(d, key, default) == IF key \in DOMAIN d THEN d[key] ELSE default

\* the system prompt falling back to the default style
system_prompt_of_default(data) ==
    Get(SYSTEM_PROMPTS, Get(data, "style", "poem"), SYSTEM_PROMPTS["default"])

\* lines 60, 63: the system prompt of the request's style
system_prompt(data) ==
    Get(SYSTEM_PROMPTS, Get(data, "style", "poem"), SYSTEM_PROMPTS["poem"])

\* lines 57, 66: f"{system_prompt}\n\nUser: {prompt}\n\nResponse:"
full_prompt(data) ==
    system_prompt(data) \o "\n\nUser: " \o Get(data, "prompt", "") \o "\n\nResponse:"

\* line 58
max_length(data) == Get(data, "max_length", DefaultMaxLength)

\* line 59
progressive(data) == Get(data, "progressive", TRUE)

\* max_length taken as requested
clamp_skipped(n) == n

\* lines 102, 110, 155: min(max_length, 150)
clamp(n) == IF n < MaxLength THEN n ELSE MaxLength

\* a JSON body with or without the key
Optional(key, values) == {<<>>} \cup {key :> v : v \in values}

\* the request bodies of SpecRequest: every key present or absent
AllRequests ==
    { p @@ s @@ m @@ g :
        p \in {"prompt" :> "hi"},
        s \in Optional("style", {"default", "poem", "brief", "haiku"}),
        m \in Optional("max_length", {10, 150, 151, 10000}),
        g \in Optional("progressive", {TRUE, FALSE}) }

\* the request bodies of Spec, where the sessions are what matters
Requests == { [prompt |-> "hi"] }

\* the keys that were ever inserted into active_generations
Issued == {id \in Ids : generations[id].status # "none"}

\* line 73: uuid.uuid4() returns a value it never returned before; Ids are in
\* the order they are drawn.
uuid4 == CHOOSE id \in Ids \ Issued : \A other \in Ids \ Issued : id <= other

\* the place of a dict that line 96 has not built yet
NoGeneration ==
    [ prompt       |-> "",
      start_time   |-> 0,
      status       |-> "none",
      current_text |-> <<>>,
      completed    |-> FALSE,
      max_length   |-> 0,
      error        |-> NoValue ]

\* full_generation built with completed True
full_generation_completed(prompt, start_time, first_result, requested) ==
    [ prompt       |-> prompt,
      start_time   |-> start_time,
      status       |-> "generating",
      current_text |-> first_result,
      completed    |-> TRUE,
      max_length   |-> clamp(requested),
      error        |-> NoValue ]

\* lines 96-103
full_generation(prompt, start_time, first_result, requested) ==
    [ prompt       |-> prompt,
      start_time   |-> start_time,
      status       |-> "generating",
      current_text |-> first_result,
      completed    |-> FALSE,
      max_length   |-> clamp(requested),
      error        |-> NoValue ]

\* lines 108-113: the thread object, before and after start()
NotStarted == [pc |-> "none", max_length |-> 0, clean_result |-> <<>>, e |-> NoValue]
Thread(requested) == [NotStarted EXCEPT !.pc = "L183", !.max_length = clamp(requested)]

\* the arguments of a call of model.generate: the first chunk (lines 82-90,
\* max_length is the length of the input plus extra) or a full answer (lines 153-161)
first_call(prompt) == [kind |-> "first", prompt |-> prompt, max_length |-> FirstChunk]
full_call(prompt, requested) ==
    [kind |-> "full", prompt |-> prompt, max_length |-> clamp(requested)]
NoCall == [kind |-> "none", prompt |-> "", max_length |-> 0]

\* lines 116-120
first_piece(generation_id, first_result) ==
    [ status |-> 200,
      body   |-> [ generation_id  |-> generation_id,
                   generated_text |-> first_result,
                   completed      |-> FALSE ] ]

\* line 172
full_piece(result) == [status |-> 200, body |-> [generated_text |-> result]]

\* an exception that leaves a view function: Flask answers 500
ServerError == [status |-> 500, body |-> [error |-> "Internal Server Error"]]

\* no response yet
NoResponse == [status |-> 0, body |-> [error |-> NoValue]]

\* a /generate request answered: its JSON body, the engine call it made, its response
Served(data, call, response) == [data |-> data, call |-> call, response |-> response]

NotServed == Served(<<>>, NoCall, NoResponse)

\* generate_full_response registering a session for its answer
generate_full_response_registers(data, result) ==
    /\ ~progressive(data)
    /\ Ids \ Issued # {}
    /\ generations' = [generations EXCEPT ![uuid4] =
                         full_generation(full_prompt(data), now, result_cleaned(result),
                                         max_length(data))]
    /\ active_generations' = active_generations \cup {uuid4}
    /\ served' = Served(data, full_call(full_prompt(data), max_length(data)),
                        full_piece(result_cleaned(result)))
    /\ UNCHANGED <<now, bg_thread, cleanup_thread, poll, decoded, cleaned>>

\* lines 68-70, 144-172: generate with progressive false, the engine returning result
generate_full_response(data, result) ==
    /\ ~progressive(data)
    /\ served' = Served(data, full_call(full_prompt(data), max_length(data)),
                        full_piece(result_cleaned(result)))
    /\ UNCHANGED <<now, active_generations, generations, bg_thread, cleanup_thread,
                   poll, decoded, cleaned>>

\* lines 68-70, 144-161: generate with progressive false, the engine raising at line 153
generate_full_response_raises(data) ==
    /\ ~progressive(data)
    /\ served' = Served(data, full_call(full_prompt(data), max_length(data)),
                        ServerError)
    /\ UNCHANGED <<now, active_generations, generations, bg_thread, cleanup_thread,
                   poll, decoded, cleaned>>

\* lines 56-66, 72-120: generate with progressive true, the engine returning first_result
generate(data, first_result) ==
    /\ progressive(data)
    /\ Ids \ Issued # {}
    /\ LET generation_id == uuid4
       IN  /\ generations' = [generations EXCEPT ![generation_id] =
                                full_generation(full_prompt(data), now, first_result,
                                                max_length(data))]
           /\ active_generations' = active_generations \cup {generation_id}
           /\ bg_thread' = [bg_thread EXCEPT ![generation_id] = Thread(max_length(data))]
           /\ served' = Served(data, first_call(full_prompt(data)),
                               first_piece(generation_id, first_result))
    /\ UNCHANGED <<now, cleanup_thread, poll, decoded, cleaned>>

\* generate inserting the session before the engine call of line 82 raises
generate_raises_registered(data) ==
    /\ progressive(data)
    /\ Ids \ Issued # {}
    /\ generations' = [generations EXCEPT ![uuid4] =
                         full_generation(full_prompt(data), now, <<>>, max_length(data))]
    /\ active_generations' = active_generations \cup {uuid4}
    /\ served' = Served(data, first_call(full_prompt(data)), ServerError)
    /\ UNCHANGED <<now, bg_thread, cleanup_thread, poll, decoded, cleaned>>

\* lines 56-90: generate with progressive true, the engine raising at line 82
generate_raises(data) ==
    /\ progressive(data)
    /\ served' = Served(data, first_call(full_prompt(data)), ServerError)
    /\ UNCHANGED <<now, active_generations, generations, bg_thread, cleanup_thread,
                   poll, decoded, cleaned>>

-----------------------------------------------------------------------------
(* The background thread of a session (lines 174-213) *)

\* lines 197-200 for every full result, as a table
clean_results == [full_result \in FullResults |-> clean_result(full_result)]

\* lines 183-203: the engine returns full_result, which is cleaned; then
\* line 203, if generation_id in active_generations
background_generate(id, full_result) ==
    /\ bg_thread[id].pc = "L183"
    /\ bg_thread' = [bg_thread EXCEPT
                       ![id].pc = IF id \in active_generations THEN "L204" ELSE "done",
                       ![id].clean_result = clean_results[full_result]]
    /\ UNCHANGED <<now, active_generations, generations, cleanup_thread, poll, served,
                   decoded, cleaned>>

\* lines 183, 209-211: the engine raises e; then line 211, if generation_id
\* in active_generations
background_generate_raises(id, e) ==
    /\ bg_thread[id].pc = "L183"
    /\ bg_thread' = [bg_thread EXCEPT
                       ![id].pc = IF id \in active_generations THEN "L212" ELSE "done",
                       ![id].e = e]
    /\ UNCHANGED <<now, active_generations, generations, cleanup_thread, poll, served,
                   decoded, cleaned>>

\* lines 204-206 and 209-211: active_generations[generation_id] of a key that
\* is gone raises KeyError, which the except clause of line 209 catches; the
\* key is still gone at line 211 (no key is inserted twice) and the thread ends
background_KeyError(id) ==
    /\ bg_thread[id].pc \in {"L204", "L205", "L206"}
    /\ id \notin active_generations
    /\ bg_thread' = [bg_thread EXCEPT ![id].pc = "done", ![id].e = "KeyError"]
    /\ UNCHANGED <<now, active_generations, generations, cleanup_thread, poll, served,
                   decoded, cleaned>>

\* line 204: active_generations[generation_id]['current_text'] = clean_result
background_L204(id) ==
    /\ bg_thread[id].pc = "L204"
    /\ id \in active_generations
    /\ generations' = [generations EXCEPT ![id].current_text = bg_thread[id].clean_result]
    /\ bg_thread' = [bg_thread EXCEPT ![id].pc = "L205"]
    /\ UNCHANGED <<now, active_generations, cleanup_thread, poll, served, decoded, cleaned>>

\* line 205 left out
background_L205_skipped(id) ==
    /\ bg_thread[id].pc = "L205"
    /\ id \in active_generations
    /\ bg_thread' = [bg_thread EXCEPT ![id].pc = "L206"]
    /\ UNCHANGED <<now, active_generations, generations, cleanup_thread, poll, served,
                   decoded, cleaned>>

\* line 205: active_generations[generation_id]['completed'] = True
background_L205(id) ==
    /\ bg_thread[id].pc = "L205"
    /\ id \in active_generations
    /\ generations' = [generations EXCEPT ![id].completed = TRUE]
    /\ bg_thread' = [bg_thread EXCEPT ![id].pc = "L206"]
    /\ UNCHANGED <<now, active_generations, cleanup_thread, poll, served, decoded, cleaned>>

\* line 206 also writing current_text once more
background_L206_rewrites(id) ==
    /\ bg_thread[id].pc = "L206"
    /\ id \in active_generations
    /\ generations' = [generations EXCEPT ![id].status = "completed",
                                          ![id].current_text = @ \o Chars("a")]
    /\ bg_thread' = [bg_thread EXCEPT ![id].pc = "done"]
    /\ UNCHANGED <<now, active_generations, cleanup_thread, poll, served, decoded, cleaned>>

\* line 206: active_generations[generation_id]['status'] = 'completed'
background_L206(id) ==
    /\ bg_thread[id].pc = "L206"
    /\ id \in active_generations
    /\ generations' = [generations EXCEPT ![id].status = "completed"]
    /\ bg_thread' = [bg_thread EXCEPT ![id].pc = "done"]
    /\ UNCHANGED <<now, active_generations, cleanup_thread, poll, served, decoded, cleaned>>

\* line 212 recording the message in place of the status
background_L212_message(id) ==
    /\ bg_thread[id].pc = "L212"
    /\ id \in active_generations
    /\ generations' = [generations EXCEPT ![id].error = bg_thread[id].e]
    /\ bg_thread' = [bg_thread EXCEPT ![id].pc = "L213"]
    /\ UNCHANGED <<now, active_generations, cleanup_thread, poll, served, decoded,
                   cleaned>>

\* line 212 also setting completed
background_L212_completes(id) ==
    /\ bg_thread[id].pc = "L212"
    /\ id \in active_generations
    /\ generations' = [generations EXCEPT ![id].status = "error", ![id].completed = TRUE]
    /\ bg_thread' = [bg_thread EXCEPT ![id].pc = "L213"]
    /\ UNCHANGED <<now, active_generations, cleanup_thread, poll, served, decoded,
                   cleaned>>

\* line 212: active_generations[generation_id]['status'] = 'error'
background_L212(id) ==
    /\ bg_thread[id].pc = "L212"
    /\ id \in active_generations
    /\ generations' = [generations EXCEPT ![id].status = "error"]
    /\ bg_thread' = [bg_thread EXCEPT ![id].pc = "L213"]
    /\ UNCHANGED <<now, active_generations, cleanup_thread, poll, served, decoded, cleaned>>

\* line 213: active_generations[generation_id]['error'] = str(e)
background_L213(id) ==
    /\ bg_thread[id].pc = "L213"
    /\ id \in active_generations
    /\ generations' = [generations EXCEPT ![id].error = bg_thread[id].e]
    /\ bg_thread' = [bg_thread EXCEPT ![id].pc = "done"]
    /\ UNCHANGED <<now, active_generations, cleanup_thread, poll, served, decoded, cleaned>>

\* lines 212-213: inside the except clause nothing catches the KeyError of a
\* key that is gone: it ends the thread
background_uncaught(id) ==
    /\ bg_thread[id].pc \in {"L212", "L213"}
    /\ id \notin active_generations
    /\ bg_thread' = [bg_thread EXCEPT ![id].pc = "uncaught"]
    /\ UNCHANGED <<now, active_generations, generations, cleanup_thread, poll, served,
                   decoded, cleaned>>

-----------------------------------------------------------------------------
(* The cleanup thread (lines 216-241) *)

\* line 235, then line 241: the thread starts by sleeping
Sleeping(until) ==
    [pc |-> "L235", wake |-> until, now |-> 0, size |-> 0, pos |-> 0, to_delete |-> <<>>]

\* the keys of active_generations in the order of iteration, which is the
\* order of insertion
RECURSIVE Ordered(_)
Ordered(keys) ==
    IF keys = {} THEN <<>>
    ELSE LET first == CHOOSE k \in keys : \A other \in keys : k <= other
         IN  <<first>> \o Ordered(keys \ {first})

\* is_old with >= for >
is_old_at_retention(t, generation) == t - generation.start_time >= Retention

\* line 222
is_old(t, generation) == t - generation.start_time > Retention

\* lines 235, 218-221: the sleep ends; now is read and the iteration begins
cleanup_old_generations ==
    /\ cleanup_thread.pc = "L235"
    /\ now >= cleanup_thread.wake
    /\ cleanup_thread' = [cleanup_thread EXCEPT !.pc = "L221", !.now = now,
                             !.size = Cardinality(active_generations), !.pos = 0,
                             !.to_delete = <<>>]
    /\ UNCHANGED <<now, active_generations, generations, bg_thread, poll, served,
                   decoded, cleaned>>

\* lines 221-223: one step of the for loop over active_generations.items();
\* after the last key, with nothing to delete, lines 228 and 234-235: the
\* thread sleeps again
cleanup_L221 ==
    /\ cleanup_thread.pc = "L221"
    /\ Cardinality(active_generations) = cleanup_thread.size
    /\ IF cleanup_thread.pos < cleanup_thread.size
       THEN LET gen_id == Ordered(active_generations)[cleanup_thread.pos + 1]
            IN  cleanup_thread' =
                  [cleanup_thread EXCEPT
                     !.pos = @ + 1,
                     !.to_delete = IF is_old(cleanup_thread.now, generations[gen_id])
                                   THEN Append(@, gen_id) ELSE @]
       ELSE cleanup_thread' = IF cleanup_thread.to_delete = <<>>
                              THEN Sleeping(now + Interval)
                              ELSE [cleanup_thread EXCEPT !.pc = "L226"]
    /\ UNCHANGED <<now, active_generations, generations, bg_thread, poll, served,
                   decoded, cleaned>>

\* line 221: a key was inserted since the iteration began: "RuntimeError:
\* dictionary changed size during iteration" leaves cleanup_old_generations
\* and the loop of start_cleanup_scheduler, and ends the thread
cleanup_RuntimeError ==
    /\ cleanup_thread.pc = "L221"
    /\ Cardinality(active_generations) # cleanup_thread.size
    /\ cleanup_thread' = [cleanup_thread EXCEPT !.pc = "dead"]
    /\ UNCHANGED <<now, active_generations, generations, bg_thread, poll, served,
                   decoded, cleaned>>

\* lines 225-226: del active_generations[gen_id]; after the last one, lines
\* 228-229 and 234-235: the thread sleeps again
cleanup_L226 ==
    /\ cleanup_thread.pc = "L226"
    /\ active_generations' = active_generations \ {Head(cleanup_thread.to_delete)}
    /\ cleanup_thread' = IF Tail(cleanup_thread.to_delete) = <<>>
                         THEN Sleeping(now + Interval)
                         ELSE [cleanup_thread EXCEPT !.to_delete = Tail(@)]
    /\ UNCHANGED <<now, generations, bg_thread, poll, served, decoded,
                   cleaned>>

-----------------------------------------------------------------------------
(* The /continue_generation/<generation_id> request (lines 122-142) *)

\* whether the background thread of a key has ended after writing the full
\* answer (lines 204-206), or after recording a failure of the engine (lines
\* 212-213)
Outcome(id) ==
    LET t == bg_thread[id]
    IN  IF t.pc = "done" /\ t.e = NoValue /\ generations[id].status = "completed"
        THEN "completed"
        ELSE IF t.pc = "done" /\ t.e \in EngineErrors /\ generations[id].status = "error"
        THEN "failed"
        ELSE "other"

\* history kept with a poll: the key polled, whether it was never inserted,
\* evicted or present when the poll began, and how far its background thread was
NotBegun == [generation_id |-> NoId, session |-> "none", thread |-> "none"]
Began(id) ==
    [ generation_id |-> id,
      session       |-> IF id \in active_generations THEN "present"
                        ELSE IF id \in Issued THEN "evicted" ELSE "never",
      thread        |-> Outcome(id) ]

\* line 126
not_found == [status |-> 404, body |-> [error |-> "No response session found"]]

\* lines 132-136 and 139-142
current_status(text, completed) ==
    [status |-> 200, body |-> [generated_text |-> text, completed |-> completed]]

\* no poll in flight; response is the answer to the last one
Idle(began, response) ==
    [pc |-> "idle", generation_id |-> NoId, generation |-> NoId, completed |-> FALSE,
     began |-> began, response |-> response]

\* continue_generation looking the key up among the dicts ever built instead
\* of among the keys the registry holds now
continue_generation_of_issued(id) ==
    /\ poll.pc = "idle"
    /\ poll' = IF id \notin Issued
               THEN Idle(Began(id), not_found)
               ELSE [Idle(Began(id), NoResponse) EXCEPT !.pc = "L128", !.generation_id = id]
    /\ UNCHANGED <<now, active_generations, generations, bg_thread, cleanup_thread,
                   served, decoded, cleaned>>

\* line 125: if generation_id not in active_generations
continue_generation(id) ==
    /\ poll.pc = "idle"
    /\ poll' = IF id \notin active_generations
               THEN Idle(Began(id), not_found)
               ELSE [Idle(Began(id), NoResponse) EXCEPT !.pc = "L128", !.generation_id = id]
    /\ UNCHANGED <<now, active_generations, generations, bg_thread, cleanup_thread,
                   served, decoded, cleaned>>

\* line 128: generation = active_generations[generation_id]; a key that is
\* gone raises KeyError, which nothing catches
continue_L128 ==
    /\ poll.pc = "L128"
    /\ poll' = IF poll.generation_id \in active_generations
               THEN [poll EXCEPT !.pc = "L131", !.generation = poll.generation_id]
               ELSE Idle(poll.began, ServerError)
    /\ UNCHANGED <<now, active_generations, generations, bg_thread, cleanup_thread,
                   served, decoded, cleaned>>

\* line 131: if generation['completed']
continue_L131 ==
    /\ poll.pc = "L131"
    /\ poll' = [poll EXCEPT !.pc = "L133",
                            !.completed = generations[poll.generation].completed]
    /\ UNCHANGED <<now, active_generations, generations, bg_thread, cleanup_thread,
                   served, decoded, cleaned>>

\* lines 132-136 also deleting the session once it is returned completed
continue_L133_clears ==
    /\ poll.pc = "L133"
    /\ poll' = Idle(poll.began,
                    current_status(generations[poll.generation].current_text,
                                   poll.completed))
    /\ active_generations' = IF poll.completed
                             THEN active_generations \ {poll.generation}
                             ELSE active_generations
    /\ UNCHANGED <<now, generations, bg_thread, cleanup_thread,
                   served, decoded, cleaned>>

\* lines 132-136 or 139-142: generation['current_text'] is read and returned
continue_L133 ==
    /\ poll.pc = "L133"
    /\ poll' = Idle(poll.began,
                    current_status(generations[poll.generation].current_text,
                                   poll.completed))
    /\ UNCHANGED <<now, active_generations, generations, bg_thread, cleanup_thread,
                   served, decoded, cleaned>>

-----------------------------------------------------------------------------
(* Time, and response cleaning on its own *)

\* line 235: time.sleep(600) is over, or the cleanup is under way
Due == \/ cleanup_thread.pc = "L235" /\ now >= cleanup_thread.wake
       \/ cleanup_thread.pc \in {"L221", "L226"}

\* Time passes.  A cleanup takes no time to speak of: once the sleep of the
\* cleanup thread is over it runs its cleanup before TickStep more seconds pass.
Tick ==
    /\ now + TickStep <= MaxTime
    /\ ~Due
    /\ now' = now + TickStep
    /\ UNCHANGED <<active_generations, generations, bg_thread, cleanup_thread, poll,
                   served, decoded, cleaned>>

NotCleaned == [by |-> "none", text |-> <<>>]

\* lines 196-200 applied to the decoded output
clean_in_background ==
    /\ cleaned' = [by |-> "background", text |-> clean_result(decoded)]
    /\ UNCHANGED <<now, active_generations, generations, bg_thread, cleanup_thread,
                   poll, served, decoded>>

\* lines 165-169 applied to the decoded output
clean_in_full_response ==
    /\ cleaned' = [by |-> "full", text |-> result_cleaned(decoded)]
    /\ UNCHANGED <<now, active_generations, generations, bg_thread, cleanup_thread,
                   poll, served, decoded>>

-----------------------------------------------------------------------------
(* The specifications *)

\* the process after the module is loaded (lines 41, 239-241)
Started ==
    /\ now = 0
    /\ active_generations = {}
    /\ generations = [id \in Ids |-> NoGeneration]
    /\ bg_thread = [id \in Ids |-> NotStarted]
    /\ cleanup_thread = Sleeping(Interval)
    /\ poll = Idle(NotBegun, NoResponse)
    /\ served = NotServed

Init ==
    /\ Started
    /\ decoded = <<>>
    /\ cleaned = NotCleaned

\* The sessions: progressive requests, their background threads, the
\* cleanup thread, polls and time.  The other requests, which leave all of
\* these alone, are in NextRequest.
Next ==
    \/ \E data \in Requests, first_result \in FirstResults : generate(data, first_result)
    \/ \E id \in Ids, full_result \in FullResults : background_generate(id, full_result)
    \/ \E id \in Ids, e \in EngineErrors : background_generate_raises(id, e)
    \/ \E id \in Ids : background_KeyError(id)
    \/ \E id \in Ids : background_L204(id)
    \/ \E id \in Ids : background_L205(id)
    \/ \E id \in Ids : background_L206(id)
    \/ \E id \in Ids : background_L212(id)
    \/ \E id \in Ids : background_L213(id)
    \/ \E id \in Ids : background_uncaught(id)
    \/ cleanup_old_generations
    \/ cleanup_L221
    \/ cleanup_RuntimeError
    \/ cleanup_L226
    \/ \E id \in Ids : continue_generation(id)
    \/ continue_L128
    \/ continue_L131
    \/ continue_L133
    \/ Tick

Spec == Init /\ [][Next]_vars

\* The sessions without the polls, which change none of them
NextLive ==
    \/ \E data \in Requests, first_result \in FirstResults : generate(data, first_result)
    \/ \E id \in Ids, full_result \in FullResults : background_generate(id, full_result)
    \/ \E id \in Ids, e \in EngineErrors : background_generate_raises(id, e)
    \/ \E id \in Ids : background_KeyError(id)
    \/ \E id \in Ids : background_L204(id)
    \/ \E id \in Ids : background_L205(id)
    \/ \E id \in Ids : background_L206(id)
    \/ \E id \in Ids : background_L212(id)
    \/ \E id \in Ids : background_L213(id)
    \/ \E id \in Ids : background_uncaught(id)
    \/ cleanup_old_generations
    \/ cleanup_L221
    \/ cleanup_RuntimeError
    \/ cleanup_L226
    \/ Tick

\* the next step of the cleanup thread
cleanup_step ==
    \/ cleanup_old_generations
    \/ cleanup_L221
    \/ cleanup_RuntimeError
    \/ cleanup_L226

\* the next step of the background thread of a session
background_step(id) ==
    \/ \E full_result \in FullResults : background_generate(id, full_result)
    \/ \E e \in EngineErrors : background_generate_raises(id, e)
    \/ background_KeyError(id)
    \/ background_L204(id)
    \/ background_L205(id)
    \/ background_L206(id)
    \/ background_L212(id)
    \/ background_L213(id)
    \/ background_uncaught(id)

\* Every thread that can take its next step takes it in the end (the
\* interpreter hands the lock round the threads that are ready to run, and
\* model.generate returns or raises), and time goes by.
Fairness ==
    /\ WF_vars(Tick)
    /\ WF_vars(cleanup_step)
    /\ \A id \in Ids : WF_vars(background_step(id))

SpecLive == Init /\ [][NextLive]_vars /\ Fairness

\* The /generate requests on their own, over every request body
NextRequest ==
    \/ \E data \in AllRequests, result \in FullResults :
          generate_full_response(data, result)
    \/ \E data \in AllRequests : generate_full_response_raises(data)
    \/ \E data \in AllRequests, first_result \in FirstResults : generate(data, first_result)
    \/ \E data \in AllRequests : generate_raises(data)

SpecRequest == Init /\ [][NextRequest]_vars

\* Response cleaning on its own, over every decoded output
InitClean ==
    /\ Started
    /\ decoded \in DecodedTexts
    /\ cleaned = NotCleaned

NextClean ==
    \/ clean_in_background
    \/ clean_in_full_response

SpecClean == InitClean /\ [][NextClean]_vars

-----------------------------------------------------------------------------
(* The claims *)

\* the response of line 126, spelled out
NotFound404 == [status |-> 404, body |-> [error |-> "No response session found"]]

\* C1: a poll of a key that was never issued, or whose session the cleanup
\* thread has evicted, is answered 404 with the error payload, the same
\* response in both cases.
C1_UnknownOrEvictedIsNotFound ==
    (poll.pc = "idle" /\ poll.began.session \in {"never", "evicted"})
        => poll.response = NotFound404

C1_Witness ==
    /\ poll.pc = "idle"
    /\ poll.began.session = "evicted"
    /\ poll.began.generation_id \in Issued \ active_generations
    /\ poll.response = NotFound404

IsFirstPiece(r) == r.status = 200 /\ "generation_id" \in DOMAIN r.body

\* C3: when /generate returns generation_id g and the first text t, the
\* session of g is in the registry with current_text t, completed false and
\* status generating; and a poll of g that is answered while the background
\* thread of g is still in its engine call returns t and completed false.
C3_PollRightAfterGenerate ==
    [][ /\ (served' # served /\ IsFirstPiece(served'.response))
           => LET g == served'.response.body.generation_id
                  t == served'.response.body.generated_text
              IN  /\ g \in active_generations'
                  /\ generations'[g].current_text = t
                  /\ generations'[g].completed = FALSE
                  /\ generations'[g].status = "generating"
                  /\ served'.response.body.completed = FALSE
        /\ (poll.pc = "L133" /\ poll'.pc = "idle" /\ IsFirstPiece(served.response)
              /\ served.response.body.generation_id = poll.generation
              /\ bg_thread[poll.generation].pc = "L183")
           => poll'.response =
                [ status |-> 200,
                  body   |-> [ generated_text |-> served.response.body.generated_text,
                               completed      |-> FALSE ] ] ]_vars

C3_Witness ==
    /\ IsFirstPiece(served.response)
    /\ poll.pc = "idle"
    /\ poll.began.generation_id = served.response.body.generation_id
    /\ bg_thread[poll.began.generation_id].pc = "L183"
    /\ poll.response.status = 200
    /\ poll.response.body.completed = FALSE
    /\ poll.response.body.generated_text = served.response.body.generated_text

\* the background thread of id ran lines 183-206 to the end
WroteFullAnswer(id) ==
    /\ bg_thread[id].pc = "done"
    /\ bg_thread[id].e = NoValue
    /\ generations[id].status = "completed"

EngineFailed(id) == bg_thread[id].e \in EngineErrors

\* C5: when the engine call of the background thread fails, the session keeps
\* the first text and completed false; when the thread has ended and the
\* session is still in the registry its status is error and the message is
\* recorded; the engine is not called again; and every poll that begins after
\* the thread ended and finds the session returns the first text and
\* completed false.
C5_FailureIsTerminal ==
    [][ /\ \A id \in Ids : EngineFailed(id)
           => /\ generations[id].current_text \in FirstResults
              /\ generations[id].completed = FALSE
              /\ generations[id].status \in {"generating", "error"}
              /\ (bg_thread[id].pc \in {"done", "uncaught"} /\ id \in active_generations)
                    => /\ generations[id].status = "error"
                       /\ generations[id].error = bg_thread[id].e
              /\ bg_thread'[id].pc # "L183"
              /\ EngineFailed(id)'
        /\ (poll.pc = "idle" /\ poll.began.thread = "failed" /\ poll.response.status = 200)
           => /\ poll.response.body.completed = FALSE
              /\ poll.response.body.generated_text \in FirstResults ]_vars

C5_Witness ==
    /\ poll.pc = "idle"
    /\ poll.began.thread = "failed"
    /\ generations[poll.began.generation_id].status = "error"
    /\ generations[poll.began.generation_id].error \in EngineErrors
    /\ poll.response.status = 200
    /\ poll.response.body.completed = FALSE
    /\ poll.response.body.generated_text \in FirstResults

\* C6: a /generate request with progressive false leaves the registry, the
\* sessions and the background threads as they were.
C6_NonProgressiveLeavesRegistry ==
    [][ (served' # served /\ Get(served'.data, "progressive", TRUE) = FALSE)
          => UNCHANGED <<active_generations, generations, bg_thread>> ]_vars

C6_Witness ==
    /\ Get(served.data, "progressive", TRUE) = FALSE
    /\ served.response.status = 200
    /\ served.call.kind = "full"
    /\ active_generations # {}

\* the text after the first occurrence of the marker, to the end of the output
AfterFirstMarker(text) == SubSeq(text, find(text, Marker) + Len(Marker), Len(text))

\* C8, as claimed: on both paths, a decoded output that contains the marker
\* is cleaned to the text after the first occurrence of the marker, up to the
\* end of the output, without its surrounding whitespace; an output without
\* the marker is left as it is.
C8_CleanedIsTextAfterFirstMarker ==
    cleaned.by # "none"
        => cleaned.text = IF find(decoded, Marker) # 0
                          THEN strip(AfterFirstMarker(decoded))
                          ELSE decoded

\* the budget of a request as C9 gives it
Budget(data) ==
    LET requested == IF "max_length" \in DOMAIN data THEN data["max_length"] ELSE 150
    IN  IF requested > 150 THEN 150 ELSE requested

\* C9: the max_length of the non-progressive engine call, the max_length
\* stored in the session and the max_length handed to the background thread
\* are the requested max_length, 150 when the request gives none, and 150
\* when more than 150 is requested.
C9_BudgetIsClamped ==
    /\ served.call.kind = "full" => served.call.max_length = Budget(served.data)
    /\ IsFirstPiece(served.response)
          => LET g == served.response.body.generation_id
             IN  /\ generations[g].max_length = Budget(served.data)
                 /\ bg_thread[g].max_length = Budget(served.data)

C9_Witness ==
    /\ IsFirstPiece(served.response)
    /\ "max_length" \in DOMAIN served.data
    /\ served.data["max_length"] = 10000
    /\ generations[served.response.body.generation_id].max_length = 150
    /\ bg_thread[served.response.body.generation_id].max_length = 150

\* the instruction of a request as C10 gives it
Instruction(data) ==
    IF "style" \in DOMAIN data /\ data["style"] \in {"default", "poem", "brief"}
    THEN SYSTEM_PROMPTS[data["style"]]
    ELSE SYSTEM_PROMPTS["poem"]

\* C10: the prompt handed to the engine, and stored in the session, is the
\* instruction of the style, then the user-turn marker, the user text and the
\* response-turn marker; the instruction is that of poem when the style is
\* absent or is not a key of the table.
C10_PromptComposition ==
    LET composed ==
          Instruction(served.data) \o "\n\nUser: " \o served.data["prompt"] \o "\n\nResponse:"
    IN  /\ served.call.kind # "none" => served.call.prompt = composed
        /\ IsFirstPiece(served.response)
              => generations[served.response.body.generation_id].prompt = composed

C10_Witness ==
    /\ served.call.kind # "none"
    /\ "style" \in DOMAIN served.data
    /\ served.data["style"] = "haiku"
    /\ served.call.prompt =
         SYSTEM_PROMPTS["poem"] \o "\n\nUser: hi\n\nResponse:"

\* C11, as claimed: no failure ends the loop of the cleanup thread, which goes
\* on sleeping 600 seconds and cleaning up for as long as the process lives.
C11_ReaperNeverStops == cleanup_thread.pc # "dead"

\* C12, as claimed: every session inserted into the registry is deleted from
\* it in the end, whatever its status and its completed flag.  It is stated
\* for the sessions inserted early enough for a cleanup to find them older
\* than 1800 seconds before the clock of the model stops at MaxTime.
C12_EverySessionIsEventuallyDeleted ==
    \A id \in Ids :
        (id \in active_generations
           /\ generations[id].start_time + Retention + Interval <= MaxTime)
        ~> id \notin active_generations

\* C13, as claimed: once the cleanup thread has deleted a session, whether
\* before the background thread of the session reaches the registry or
\* between two of its accesses, on the success path and on the failure path
\* alike, the writes of the thread are dropped, no exception leaves the
\* thread, and the session does not come back into the registry.
C13_BackgroundToleratesEviction ==
    [][ \A id \in Issued \ active_generations :
           /\ generations'[id] = generations[id]
           /\ id \notin active_generations'
           /\ bg_thread'[id].pc # "uncaught" ]_vars

\* the cleanup thread is in a cleanup, and takes a step
InCleanup == cleanup_thread.pc \in {"L221", "L226"} /\ cleanup_thread' # cleanup_thread

\* C14, as claimed: a cleanup reads now once, when it begins; when it ends it
\* has deleted exactly the sessions more than 1800 seconds old at that time,
\* whatever their status and completed flag, and it changes no field of any
\* session; the next cleanup begins 600 seconds after it.
C14_CleanupDeletesExactlyTheOld ==
    [][ /\ (cleanup_thread.pc = "L235" /\ cleanup_thread'.pc = "L221")
           => /\ cleanup_thread'.now = now
              /\ now >= cleanup_thread.wake
        /\ InCleanup
           => /\ cleanup_thread'.now \in {cleanup_thread.now, 0}
              /\ generations' = generations
              /\ \A id \in active_generations \ active_generations' :
                    cleanup_thread.now - generations[id].start_time > 1800
        /\ (InCleanup /\ cleanup_thread'.pc \notin {"L221", "L226"})
           => /\ \A id \in active_generations' :
                    cleanup_thread.now - generations[id].start_time <= 1800
              /\ cleanup_thread'.pc = "L235" => cleanup_thread'.wake = now + 600 ]_vars

\* the background thread of id has not reached its registry accesses yet
NotYetWriting(id) == bg_thread[id].pc \in {"none", "L183"}

\* current_text of an issued key is written only by line 204 of its own
\* background thread, which the thread runs at most once, and a thread is
\* started for a key only when the key is issued
WrittenOnceByItsThread(id) ==
    /\ (id \in Issued /\ generations'[id].current_text # generations[id].current_text)
          => bg_thread[id].pc = "L204" /\ bg_thread'[id].pc = "L205"
    /\ ~NotYetWriting(id) => ~NotYetWriting(id)'
    /\ bg_thread'[id].pc = "L204" => bg_thread[id].pc \in {"L183", "L204"}
    /\ (bg_thread[id].pc # "L183" /\ bg_thread'[id].pc = "L183") => id \notin Issued

\* C15, as claimed: current_text is written by one background thread, at most
\* once after the session is created; once completed is true there is no
\* further write to current_text, completed or status; and no second
\* background thread is started for the key.
C15_NoWriteOnceCompleted ==
    [][ \A id \in Ids :
           /\ WrittenOnceByItsThread(id)
           /\ generations[id].completed
                 => /\ generations'[id].current_text = generations[id].current_text
                    /\ generations'[id].completed = TRUE
                    /\ generations'[id].status = generations[id].status ]_vars

\* C15, amended: as above for current_text and completed; once completed is
\* true the one write left is that of status, from generating to completed,
\* which the same thread makes at line 206.
C15_OnlyStatusWrittenOnceCompleted ==
    [][ \A id \in Ids :
           /\ WrittenOnceByItsThread(id)
           /\ generations[id].completed
                 => /\ generations'[id].current_text = generations[id].current_text
                    /\ generations'[id].completed = TRUE
                    /\ \/ generations'[id].status = generations[id].status
                       \/ /\ bg_thread[id].pc = "L206"
                          /\ bg_thread'[id].pc = "done"
                          /\ generations[id].status = "generating"
                          /\ generations'[id].status = "completed" ]_vars

C15_Witness ==
    \E id \in active_generations :
        /\ bg_thread[id].pc = "L206"
        /\ generations[id].completed
        /\ generations[id].status = "generating"
        /\ generations[id].current_text = bg_thread[id].clean_result
        /\ generations[id].current_text \notin FirstResults

\* the statuses a session may take after status
NextStatuses(status) ==
    IF status = "generating" THEN {"generating", "completed", "error"} ELSE {status}

\* C16: the status of a session is generating when the session is created,
\* then moves only from generating to completed or from generating to error;
\* the session holds an error message only while its status is error.
C16_StatusIsMonotonic ==
    [][ \A id \in Ids :
           /\ (id \notin Issued /\ id \in Issued')
                 => /\ generations'[id].status = "generating"
                    /\ generations'[id].error = NoValue
           /\ id \in Issued
                 => /\ generations'[id].status \in NextStatuses(generations[id].status)
                    /\ generations[id].error # NoValue => generations[id].status = "error"
                    /\ generations'[id].error # NoValue => generations'[id].status = "error" ]_vars

C16_Witness ==
    \E failed, completed \in Issued :
        /\ generations[failed].status = "error"
        /\ generations[failed].error \in EngineErrors
        /\ generations[completed].status = "completed"
        /\ generations[completed].error = NoValue

C18_FirstCallFailureLeavesRegistry ==
    [][ (served' # served /\ served'.call.kind = "first"
           /\ ~IsFirstPiece(served'.response))
          => /\ served'.response.status = 500
             /\ UNCHANGED <<active_generations, generations, bg_thread>> ]_vars

C18_Witness ==
    /\ served.call.kind = "first"
    /\ progressive(served.data)
    /\ served.response.status = 500
    /\ Cardinality(active_generations) = 1
    /\ Issued = active_generations

\* C19, as claimed: however a poll and a cleanup interleave, the poll is
\* answered either 404 with the error payload or 200 with generated_text and
\* completed read from the session; a deletion between the check of line 125
\* and the read of line 128 never makes it fail.
C19_PollEndsNotFoundOrPayload ==
    (poll.pc = "idle" /\ poll.began.session # "none")
        => \/ poll.response = NotFound404
           \/ /\ poll.response.status = 200
              /\ DOMAIN poll.response.body = {"generated_text", "completed"}

\* the cleaned full results the background thread may write
CleanedFullResults == {clean_result(full_result) : full_result \in FullResults}

\* C20, as claimed: however a poll and the three writes of the background
\* thread interleave, a poll answered with completed true carries the cleaned
\* full result and not the first text, and a poll answered with completed
\* false carries the first text and not the full result.
C20_PollPayloadIsConsistent ==
    (poll.pc = "idle" /\ poll.response.status = 200)
        => IF poll.response.body.completed
           THEN /\ poll.response.body.generated_text \in CleanedFullResults
                /\ poll.response.body.generated_text \notin FirstResults
           ELSE /\ poll.response.body.generated_text \in FirstResults
                /\ poll.response.body.generated_text \notin CleanedFullResults

====
